---- MODULE Spec2Model ----
(***************************************************************************)
(* Films catalog browser (FastAPI): the filter-and-paginate pipeline and   *)
(* the process-wide result slot `filtered_films`, as implemented by        *)
(* src/main.py and by its earlier variant src/app.py.                      *)
(*                                                                         *)
(* Strings are sequences of one-character strings, so that str.lower(),    *)
(* the substring test `in` and string ordering are computed, not assumed.  *)
(***************************************************************************)
EXTENDS Integers, Sequences, FiniteSets, TLC

VARIABLES
    served,          \* which module uvicorn serves: "main" (main.py) or "app" (app.py)
    films_file,      \* parsed content of data/films.json (read by load_json, never written)
    filtered_films,  \* the module-level global list
    req,             \* per client: the request thread in progress and its locals
    event,           \* the step just taken: client, handler, and the response if one was sent
    last_write,      \* history: who stored into filtered_films last, with which criterion
    submitted,       \* history: per client, the criterion of its last completed search submit
    pg               \* a caller walking paginate() directly over a sequence

vars == <<served, films_file, filtered_films, req, event, last_write, submitted, pg>>

----------------------------------------------------------------------------
(* Bounds of the model *)

MaxCatalog == 14      \* length of the long catalog served to the clients
MaxFilterLen == 3     \* catalogs of every content up to this length (filter checks)
MaxSeqLen == 4        \* sequences of every content up to this length (paginate checks)
MaxLongLen == 12      \* longest enumerated sequence 1..n (paginate checks)
MaxPerPage == 3       \* page sizes 1..MaxPerPage besides PER_PAGE (paginate checks)
MaxPage == 2          \* largest page number a request asks for
MaxNegPage == 1       \* pages down to -MaxNegPage are asked for
MaxYearSpan == 2      \* year bounds 1989 .. 1990 + MaxYearSpan are submitted

PER_PAGE == 10

Clients == {"A", "B"}
Pages == (0 - MaxNegPage)..MaxPage

----------------------------------------------------------------------------
(* Python primitives used by the handlers *)

\* str.lower() on one character of the alphabet in use
LowerChar(ch) ==
    CASE ch = "A" -> "a"
      [] ch = "B" -> "b"
      [] ch = "C" -> "c"
      [] ch = "D" -> "d"
      [] OTHER -> ch

lower(s) == [i \in 1..Len(s) |-> LowerChar(s[i])]

\* `sub in s` for str: some window of s equals sub
StrIn(sub, s) ==
    \E i \in 0..(Len(s) - Len(sub)) : SubSeq(s, i + 1, i + Len(sub)) = sub

\* ord() of the characters in use, for the ordering sorted() applies to str
Ord(ch) ==
    CASE ch = "A" -> 65
      [] ch = "B" -> 66
      [] ch = "C" -> 67
      [] ch = "D" -> 68
      [] ch = "X" -> 88
      [] ch = "a" -> 97
      [] ch = "b" -> 98
      [] ch = "c" -> 99
      [] ch = "d" -> 100
      [] ch = "o" -> 111
      [] ch = "r" -> 114
      [] ch = "x" -> 120

\* s < t for str: lexicographic by code point, a proper prefix is smaller
StrLess(s, t) ==
    \E k \in 1..(Len(t)) :
        /\ \A j \in 1..(k - 1) : j <= Len(s) /\ s[j] = t[j]
        /\ k - 1 <= Len(s)
        /\ \/ k = Len(s) + 1
           \/ k <= Len(s) /\ Ord(s[k]) < Ord(t[k])

\* sorted(set of str): the ascending list of the set's members
RECURSIVE sorted(_)
sorted(set) ==
    IF set = {} THEN <<>>
    ELSE LET least == CHOOSE x \in set : \A y \in set \ {x} : StrLess(x, y)
         IN  <<least>> \o sorted(set \ {least})

\* One bound of a slice, as list.__getitem__ normalises it against len n
SliceIndex(k, n) ==
    IF k < 0 THEN (IF k + n < 0 THEN 0 ELSE k + n)
    ELSE (IF k > n THEN n ELSE k)

\* items[start:end]
Slice(items, start, end) ==
    LET lo == SliceIndex(start, Len(items))
        hi == SliceIndex(end, Len(items))
    IN  IF lo >= hi THEN <<>> ELSE SubSeq(items, lo + 1, hi)

----------------------------------------------------------------------------
(* paginate *)

\* paginate with pages counted from 0: start = page * per_page
paginate_zero_based(items, page, per_page) ==
    LET total == Len(items)
        start == page * per_page
        end == start + per_page
    IN  [items |-> Slice(items, start, end), has_prev |-> page > 1,
         has_next |-> end < total, page |-> page, offset |-> start]

\* paginate with has_next = end <= total
paginate_next_inclusive(items, page, per_page) ==
    LET total == Len(items)
        start == (page - 1) * per_page
        end == start + per_page
    IN  [items |-> Slice(items, start, end), has_prev |-> page > 1,
         has_next |-> end <= total, page |-> page, offset |-> start]

\* paginate that shows the last page when asked for a page beyond it
paginate_clamp_last(items, page, per_page) ==
    LET total == Len(items)
        asked == (page - 1) * per_page
        start == IF asked >= total /\ total > 0
                 THEN ((total - 1) \div per_page) * per_page ELSE asked
        end == start + per_page
    IN  [items |-> Slice(items, start, end), has_prev |-> page > 1,
         has_next |-> end < total, page |-> page, offset |-> start]

paginate(items, page, per_page) ==
    LET total == Len(items)
        start == (page - 1) * per_page
        end == start + per_page
        sliced == Slice(items, start, end)
    IN  [items |-> sliced,
         has_prev |-> page > 1,
         has_next |-> end < total,
         page |-> page,
         offset |-> start]

----------------------------------------------------------------------------
(* Fixture data: data/films.json and data/statistics.json *)

Film(title, genre, year) ==
    [title |-> title, description |-> <<"x">>, genre |-> genre, year |-> year]

Pool ==
    << Film(<<"A", "b">>, <<"D", "r">>, 1990),
       Film(<<"b", "a">>, <<"D", "r">>, 1991),
       Film(<<"B">>,      <<"d", "r">>, 1991),
       Film(<<"a", "A">>, <<"C", "o">>, 1992) >>

\* the catalog of n films that repeats the pool in order
CatalogOf(n) == [i \in 1..n |-> Pool[((i - 1) % Len(Pool)) + 1]]

\* every catalog of at most n films of the pool, in every order
RECURSIVE CatalogsUpTo(_)
CatalogsUpTo(n) ==
    IF n = 0 THEN {<<>>}
    ELSE LET shorter == CatalogsUpTo(n - 1)
         IN  shorter \cup {Append(c, Pool[k]) : c \in shorter, k \in 1..Len(Pool)}

ServedCatalogs == {CatalogOf(0), CatalogOf(MaxCatalog)}

stats_file == [films |-> 4, genres |-> 3]

Years == 1989..(1990 + MaxYearSpan)
ServedYears == {1990, 1990 + MaxYearSpan}
Keywords == {<<"A">>, <<"b", "a">>, <<"a", "B">>}
ServedKeywords == {<<"A">>}
Genres == {<<"D", "r">>, <<"d", "r">>, <<"C", "o">>, <<"X", "x">>}
ServedGenres == {<<"D", "r">>}

----------------------------------------------------------------------------
(* Requests, responses and history records *)

NoCrit == [kind |-> "none", from |-> 0, to |-> 0, text |-> <<>>]
YearRange(year_from, year_to) ==
    [kind |-> "year", from |-> year_from, to |-> year_to, text |-> <<>>]
KeywordInTitle(keyword) == [kind |-> "keyword", from |-> 0, to |-> 0, text |-> keyword]
Genre(genre) == [kind |-> "genre", from |-> 0, to |-> 0, text |-> genre]

Idle == [pc |-> "idle", filtered |-> <<>>, page |-> 0, crit |-> NoCrit]

NoWrite == [client |-> "none", crit |-> NoCrit]

COLUMNS == <<"title", "description", "genre", "year">>

\* a step that has not answered yet
Running(c, handler) ==
    [client |-> c, handler |-> handler, status |-> 0, template |-> "", context |-> <<>>]

\* templates.TemplateResponse(template, context)
TemplateResponse(c, handler, template, context) ==
    [client |-> c, handler |-> handler, status |-> 200, template |-> template,
     context |-> context]

\* RedirectResponse(url=..., status_code=303)
RedirectResponse(c, handler, url) ==
    [client |-> c, handler |-> handler, status |-> 303, template |-> "",
     context |-> [location |-> url]]

\* the context the paginated templates get: the entries of paginate()'s dict
PageContext(title, pagination) ==
    [title |-> title,
     items |-> pagination.items,
     columns |-> COLUMNS,
     page |-> pagination.page,
     has_prev |-> pagination.has_prev,
     has_next |-> pagination.has_next,
     offset |-> pagination.offset]

NoEvent == Running("none", "none")

\* a caller of paginate(): the sequence and page size it holds, the page it asked
\* for last with the result, and its walk over the pages 1, 2, ... so far
Caller(items, per_page) ==
    [items |-> items, per_page |-> per_page, asked |-> 1,
     result |-> paginate(items, 1, per_page),
     page |-> 1, acc |-> <<>>, done |-> FALSE]

PgIdle == Caller(<<>>, PER_PAGE)

----------------------------------------------------------------------------
(* The list comprehensions of the handlers *)

\* the genre comprehension comparing without regard to case
genre_comprehension_nocase(films, genre) ==
    LET Test(f) == lower(f.genre) = lower(genre)
    IN  SelectSeq(films, Test)

\* [f for f in films if f["genre"] == genre]
genre_comprehension(films, genre) ==
    LET Test(f) == f.genre = genre
    IN  SelectSeq(films, Test)

\* [f for f in films if kw_lower in f["title"].lower()], kw_lower = keyword.lower()
keyword_comprehension(films, keyword) ==
    LET kw_lower == lower(keyword)
        Test(f) == StrIn(kw_lower, lower(f.title))
    IN  SelectSeq(films, Test)

\* the year comprehension with an exclusive upper bound
year_comprehension_exclusive(films, year_from, year_to) ==
    LET Test(f) == year_from <= f.year /\ f.year < year_to
    IN  SelectSeq(films, Test)

\* [f for f in films if year_from <= f["year"] <= year_to]
year_comprehension(films, year_from, year_to) ==
    LET Test(f) == year_from <= f.year /\ f.year <= year_to
    IN  SelectSeq(films, Test)

\* load_json(FILMS_FILE)
load_json == films_file

----------------------------------------------------------------------------
(* Handlers common to main.py and app.py (home, genres, statistics,          *)
(* year_form_submit and year_search are the same code in both files).       *)
(* A handler that touches the global once is one step, taken where it reads *)
(* or binds the name; the two that compute a list and then bind it are      *)
(* split there, and main.py's films_by_genre, which binds the global and    *)
(* then reads it again, has a third step. The lists themselves are never    *)
(* changed in place, so a reader keeps the list it has read.                *)

Unchanged_history == UNCHANGED <<last_write, submitted>>

\* GET /
home(c) ==
    /\ req[c].pc = "idle"
    /\ event' = TemplateResponse(c, "home", "home.html", [title |-> "Home"])
    /\ UNCHANGED <<served, films_file, filtered_films, req, pg>>
    /\ Unchanged_history

\* GET /genres
genres(c) ==
    /\ req[c].pc = "idle"
    /\ LET films == load_json
           genres_list == sorted({films[i].genre : i \in 1..Len(films)})
       IN  event' = TemplateResponse(c, "genres", "genres.html",
                        [title |-> "Genres", genres |-> genres_list])
    /\ UNCHANGED <<served, films_file, filtered_films, req, pg>>
    /\ Unchanged_history

\* GET /statistics
statistics(c) ==
    /\ req[c].pc = "idle"
    /\ event' = TemplateResponse(c, "statistics", "statistics.html",
                    [title |-> "Statistics", stats |-> stats_file])
    /\ UNCHANGED <<served, films_file, filtered_films, req, pg>>
    /\ Unchanged_history

\* POST /search/year, up to the evaluation of the comprehension
year_form_submit_filter(c, year_from, year_to) ==
    /\ req[c].pc = "idle"
    /\ LET films == load_json
       IN  req' = [req EXCEPT ![c] =
                    [pc |-> "year_form_submit:store",
                     filtered |-> year_comprehension(films, year_from, year_to),
                     page |-> 0,
                     crit |-> YearRange(year_from, year_to)]]
    /\ event' = Running(c, "year_form_submit")
    /\ UNCHANGED <<served, films_file, filtered_films, pg>>
    /\ Unchanged_history

\* the store without `global filtered_films`: the assignment binds a local
year_form_submit_store_local(c) ==
    /\ req[c].pc = "year_form_submit:store"
    /\ last_write' = [client |-> c, crit |-> req[c].crit]
    /\ submitted' = [submitted EXCEPT ![c] = req[c].crit]
    /\ req' = [req EXCEPT ![c] = Idle]
    /\ event' = RedirectResponse(c, "year_form_submit", "/search/year")
    /\ UNCHANGED <<served, films_file, filtered_films, pg>>

\* POST /search/year, the assignment to the global and the redirect
year_form_submit_store(c) ==
    /\ req[c].pc = "year_form_submit:store"
    /\ filtered_films' = req[c].filtered
    /\ last_write' = [client |-> c, crit |-> req[c].crit]
    /\ submitted' = [submitted EXCEPT ![c] = req[c].crit]
    /\ req' = [req EXCEPT ![c] = Idle]
    /\ event' = RedirectResponse(c, "year_form_submit", "/search/year")
    /\ UNCHANGED <<served, films_file, pg>>

\* the view paginating the viewing client's own last submit (a per-session store)
year_search_own(c, page) ==
    /\ req[c].pc = "idle"
    /\ LET own == IF submitted[c].kind = "year"
                  THEN year_comprehension(films_file, submitted[c].from, submitted[c].to)
                  ELSE IF submitted[c].kind = "keyword"
                  THEN keyword_comprehension(films_file, submitted[c].text)
                  ELSE <<>>
           pagination == paginate(own, page, PER_PAGE)
       IN  event' = TemplateResponse(c, "year_search", "year.html",
                        [items |-> pagination.items,
                         columns |-> COLUMNS,
                         page |-> pagination.page,
                         has_prev |-> pagination.has_prev,
                         has_next |-> pagination.has_next,
                         offset |-> pagination.offset])
    /\ UNCHANGED <<served, films_file, filtered_films, req, pg>>
    /\ Unchanged_history

\* the view emptying the slot once it has displayed it
year_search_clearing(c, page) ==
    /\ req[c].pc = "idle"
    /\ LET pagination == paginate(filtered_films, page, PER_PAGE)
       IN  event' = TemplateResponse(c, "year_search", "year.html",
                        [items |-> pagination.items,
                         columns |-> COLUMNS,
                         page |-> pagination.page,
                         has_prev |-> pagination.has_prev,
                         has_next |-> pagination.has_next,
                         offset |-> pagination.offset])
    /\ filtered_films' = <<>>
    /\ UNCHANGED <<served, films_file, req, pg>>
    /\ Unchanged_history

\* GET /search/year: paginate(filtered_films, page) reads the global once
year_search(c, page) ==
    /\ req[c].pc = "idle"
    /\ LET pagination == paginate(filtered_films, page, PER_PAGE)
       IN  event' = TemplateResponse(c, "year_search", "year.html",
                        [items |-> pagination.items,
                         columns |-> COLUMNS,
                         page |-> pagination.page,
                         has_prev |-> pagination.has_prev,
                         has_next |-> pagination.has_next,
                         offset |-> pagination.offset])
    /\ UNCHANGED <<served, films_file, filtered_films, req, pg>>
    /\ Unchanged_history

----------------------------------------------------------------------------
(* Handlers of main.py *)

\* GET /genres/{genre}, up to the evaluation of the comprehension
films_by_genre_filter(c, genre, page) ==
    /\ served = "main"
    /\ req[c].pc = "idle"
    /\ LET films == load_json
       IN  req' = [req EXCEPT ![c] =
                    [pc |-> "films_by_genre:store",
                     filtered |-> genre_comprehension(films, genre),
                     page |-> page,
                     crit |-> Genre(genre)]]
    /\ event' = Running(c, "films_by_genre")
    /\ UNCHANGED <<served, films_file, filtered_films, pg>>
    /\ Unchanged_history

\* GET /genres/{genre}, the assignment to the global
films_by_genre_store(c) ==
    /\ req[c].pc = "films_by_genre:store"
    /\ filtered_films' = req[c].filtered
    /\ last_write' = [client |-> c, crit |-> req[c].crit]
    /\ req' = [req EXCEPT ![c].pc = "films_by_genre:paginate", ![c].filtered = <<>>]
    /\ event' = Running(c, "films_by_genre")
    /\ UNCHANGED <<served, films_file, submitted, pg>>

\* GET /genres/{genre}, paginate(filtered_films, page) on the global and the answer
films_by_genre_render(c) ==
    /\ req[c].pc = "films_by_genre:paginate"
    /\ LET pagination == paginate(filtered_films, req[c].page, PER_PAGE)
       IN  event' = TemplateResponse(c, "films_by_genre", "keyword.html",
                        PageContext(<<"Genre: ", req[c].crit.text>>, pagination))
    /\ req' = [req EXCEPT ![c] = Idle]
    /\ UNCHANGED <<served, films_file, filtered_films, pg>>
    /\ Unchanged_history

\* POST /search/keyword, up to the evaluation of the comprehension
keyword_search_filter(c, keyword) ==
    /\ served = "main"
    /\ req[c].pc = "idle"
    /\ LET films == load_json
       IN  req' = [req EXCEPT ![c] =
                    [pc |-> "keyword_search:store",
                     filtered |-> keyword_comprehension(films, keyword),
                     page |-> 0,
                     crit |-> KeywordInTitle(keyword)]]
    /\ event' = Running(c, "keyword_search")
    /\ UNCHANGED <<served, films_file, filtered_films, pg>>
    /\ Unchanged_history

\* the store extending the list in place: filtered_films.extend(...)
keyword_search_store_extend(c) ==
    /\ req[c].pc = "keyword_search:store"
    /\ filtered_films' = filtered_films \o req[c].filtered
    /\ last_write' = [client |-> c, crit |-> req[c].crit]
    /\ submitted' = [submitted EXCEPT ![c] = req[c].crit]
    /\ req' = [req EXCEPT ![c] = Idle]
    /\ event' = RedirectResponse(c, "keyword_search", "/search/keyword")
    /\ UNCHANGED <<served, films_file, pg>>

\* POST /search/keyword, the assignment to the global and the redirect
keyword_search_store(c) ==
    /\ req[c].pc = "keyword_search:store"
    /\ filtered_films' = req[c].filtered
    /\ last_write' = [client |-> c, crit |-> req[c].crit]
    /\ submitted' = [submitted EXCEPT ![c] = req[c].crit]
    /\ req' = [req EXCEPT ![c] = Idle]
    /\ event' = RedirectResponse(c, "keyword_search", "/search/keyword")
    /\ UNCHANGED <<served, films_file, pg>>

\* GET /search/keyword
keyword_form(c, page) ==
    /\ served = "main"
    /\ req[c].pc = "idle"
    /\ LET pagination == paginate(filtered_films, page, PER_PAGE)
       IN  event' = TemplateResponse(c, "keyword_form", "keyword.html",
                        PageContext("Search by keyword", pagination))
    /\ UNCHANGED <<served, films_file, filtered_films, req, pg>>
    /\ Unchanged_history

----------------------------------------------------------------------------
(* Handlers of app.py that differ from main.py *)

\* GET /genres/{genre}: filters into a local, the global is not touched
app_films_by_genre(c, genre, page) ==
    /\ served = "app"
    /\ req[c].pc = "idle"
    /\ LET films == load_json
           filtered == genre_comprehension(films, genre)
           pagination == paginate(filtered, page, PER_PAGE)
       IN  event' = TemplateResponse(c, "films_by_genre", "keyword.html",
                        PageContext(<<"Genre: ", genre>>, pagination))
    /\ UNCHANGED <<served, films_file, filtered_films, req, pg>>
    /\ Unchanged_history

\* GET /search/keyword: the empty search form
app_keyword_form(c) ==
    /\ served = "app"
    /\ req[c].pc = "idle"
    /\ event' = TemplateResponse(c, "keyword_form", "keyword.html",
                    [title |-> "Search by keyword", items |-> <<>>])
    /\ UNCHANGED <<served, films_file, filtered_films, req, pg>>
    /\ Unchanged_history

\* POST /search/keyword: filters into a local and renders the page itself
app_keyword_search(c, keyword, page) ==
    /\ served = "app"
    /\ req[c].pc = "idle"
    /\ LET films == load_json
           filtered == keyword_comprehension(films, keyword)
           pagination == paginate(filtered, page, PER_PAGE)
       IN  event' = TemplateResponse(c, "keyword_search", "keyword.html",
                        PageContext("Search by keyword", pagination))
    /\ UNCHANGED <<served, films_file, filtered_films, req, pg>>
    /\ Unchanged_history

----------------------------------------------------------------------------
(* The served application under two concurrent clients *)

InitServer(catalogs) ==
    /\ served \in {"main", "app"}
    /\ films_file \in catalogs
    /\ filtered_films = <<>>
    /\ req = [c \in Clients |-> Idle]
    /\ event = NoEvent
    /\ last_write = NoWrite
    /\ submitted = [c \in Clients |-> NoCrit]
    /\ pg = PgIdle

Init == InitServer(ServedCatalogs)

Next ==
    \E c \in Clients :
        \/ home(c)
        \/ genres(c)
        \/ statistics(c)
        \/ \E yf \in ServedYears, yt \in ServedYears : year_form_submit_filter(c, yf, yt)
        \/ year_form_submit_store(c)
        \/ \E page \in Pages : year_search(c, page)
        \/ \E g \in ServedGenres, page \in Pages : films_by_genre_filter(c, g, page)
        \/ films_by_genre_store(c)
        \/ films_by_genre_render(c)
        \/ \E kw \in ServedKeywords : keyword_search_filter(c, kw)
        \/ keyword_search_store(c)
        \/ \E page \in Pages : keyword_form(c, page)
        \/ \E g \in ServedGenres, page \in Pages : app_films_by_genre(c, g, page)
        \/ app_keyword_form(c)
        \/ \E kw \in ServedKeywords, page \in Pages : app_keyword_search(c, kw, page)

Spec == Init /\ [][Next]_vars

----------------------------------------------------------------------------
(* One client at a time, over every small catalog *)

InitFilter == InitServer(CatalogsUpTo(MaxFilterLen))

NextFilter ==
    \/ \E yf \in Years, yt \in Years : year_form_submit_filter("A", yf, yt)
    \/ year_form_submit_store("A")
    \/ \E g \in Genres : films_by_genre_filter("A", g, 1)
    \/ films_by_genre_store("A")
    \/ films_by_genre_render("A")
    \/ \E g \in Genres : app_films_by_genre("A", g, 1)

SpecFilter == InitFilter /\ [][NextFilter]_vars

----------------------------------------------------------------------------
(* paginate() called directly, with any page size *)

RECURSIVE SeqsUpTo(_)
SeqsUpTo(n) ==
    IF n = 0 THEN {<<>>}
    ELSE LET shorter == SeqsUpTo(n - 1)
         IN  shorter \cup {Append(q, x) : q \in shorter, x \in {1, 2}}

PgSeqs == SeqsUpTo(MaxSeqLen) \cup {[i \in 1..n |-> i] : n \in (MaxSeqLen + 1)..MaxLongLen}
PgPerPage == (1..MaxPerPage) \cup {PER_PAGE}
PgPages == (0 - MaxNegPage)..(MaxLongLen + 2)

InitPaginate ==
    /\ served = "main"
    /\ films_file = <<>>
    /\ filtered_films = <<>>
    /\ req = [c \in Clients |-> Idle]
    /\ event = NoEvent
    /\ last_write = NoWrite
    /\ submitted = [c \in Clients |-> NoCrit]
    /\ \E items \in PgSeqs, per_page \in PgPerPage : pg = Caller(items, per_page)

\* the caller asks for page n
paginate_call(n) ==
    /\ pg' = [pg EXCEPT !.asked = n, !.result = paginate(pg.items, n, pg.per_page)]
    /\ UNCHANGED <<served, films_file, filtered_films, req, event, last_write, submitted>>

\* the caller asks for its next page, and stops at the first empty one
paginate_walk ==
    /\ ~pg.done
    /\ LET pagination == paginate(pg.items, pg.page, pg.per_page)
       IN  IF pagination.items = <<>>
           THEN pg' = [pg EXCEPT !.done = TRUE]
           ELSE pg' = [pg EXCEPT !.acc = pg.acc \o pagination.items, !.page = pg.page + 1]
    /\ UNCHANGED <<served, films_file, filtered_films, req, event, last_write, submitted>>

NextPaginate ==
    \/ \E n \in PgPages : paginate_call(n)
    \/ paginate_walk

SpecPaginate == InitPaginate /\ [][NextPaginate]_vars

----------------------------------------------------------------------------
(* Properties of paginate(), under SpecPaginate *)

\* number of the last non-empty page of a sequence of n items (0 when there is none)
LastPage(n, per_page) == IF n = 0 THEN 0 ELSE (n + per_page - 1) \div per_page

\* C1: walking the pages 1, 2, 3, ... of a sequence and concatenating their items
\* until the first empty page yields exactly the sequence: what has been
\* collected is always the prefix of the sequence that the pages walked so far
\* cover, without gap or duplicate, and at the first empty page it is the whole
\* sequence.
C1_PagesReconstructSequence ==
    LET covered == (pg.page - 1) * pg.per_page
    IN  /\ Len(pg.acc) = (IF covered < Len(pg.items) THEN covered ELSE Len(pg.items))
        /\ \A i \in 1..Len(pg.acc) : pg.acc[i] = pg.items[i]
        /\ pg.done => pg.acc = pg.items

C1_Witness ==
    /\ pg.done
    /\ pg.page >= 3
    /\ Len(pg.items) % pg.per_page # 0
    /\ pg.acc = pg.items

\* C4: for a page n >= 1, has_next is true iff (n-1)*p + p < length, iff some
\* element lies beyond page n (page n+1 has an item); it is false exactly on the
\* last non-empty page and on every page beyond it.
C4_HasNextIffMoreItems ==
    LET n == pg.asked
        p == pg.per_page
        len == Len(pg.items)
    IN  n >= 1 =>
          /\ pg.result.has_next <=> ((n - 1) * p + p < len)
          /\ pg.result.has_next <=> (\E i \in 1..len : i > n * p)
          /\ ~pg.result.has_next <=> (n >= LastPage(len, p))

C4_Witness ==
    /\ pg.asked >= 2
    /\ pg.asked = LastPage(Len(pg.items), pg.per_page)
    /\ pg.result.items # <<>>
    /\ ~pg.result.has_next

\* C5: for a page n >= 1, also one beyond the last page, paginate returns a
\* result with offset = (n-1)*p, page = n, at most p items, and no item when
\* the offset is not below the length; the empty sequence at page 1 gives
\* items=[], has_prev=false, has_next=false, offset=0.
C5_OutOfRangePageIsEmpty ==
    LET n == pg.asked
        p == pg.per_page
        r == pg.result
    IN  n >= 1 =>
          /\ r.offset = (n - 1) * p
          /\ r.page = n
          /\ Len(r.items) <= p
          /\ r.offset >= Len(pg.items) => r.items = <<>>
          /\ (pg.items = <<>> /\ n = 1) =>
                r = [items |-> <<>>, has_prev |-> FALSE, has_next |-> FALSE,
                     page |-> 1, offset |-> 0]

C5_Witness ==
    /\ pg.items # <<>>
    /\ pg.asked > LastPage(Len(pg.items), pg.per_page) + 1
    /\ pg.result.items = <<>>
    /\ pg.result.offset > Len(pg.items)

----------------------------------------------------------------------------
(* What a filter result is, stated on positions of the catalog *)

\* the film satisfies the criterion
Matches(f, k) ==
    CASE k.kind = "year" -> k.from <= f.year /\ f.year <= k.to
      [] k.kind = "keyword" -> StrIn(lower(k.text), lower(f.title))
      [] k.kind = "genre" -> f.genre = k.text
      [] OTHER -> FALSE

\* the j-th smallest member of a set of positions
Kth(idx, j) == CHOOSE i \in idx : Cardinality({m \in idx : m <= i}) = j

\* the films of the catalog at the positions idx, each once, in catalog order
Selection(catalog, idx) == [j \in 1..Cardinality(idx) |-> catalog[Kth(idx, j)]]

MatchingPositions(catalog, k) == {i \in 1..Len(catalog) : Matches(catalog[i], k)}

FilterOf(catalog, k) == Selection(catalog, MatchingPositions(catalog, k))

\* the pagination entries of a rendered context
PageOf(context) ==
    [items |-> context.items, has_prev |-> context.has_prev,
     has_next |-> context.has_next, page |-> context.page, offset |-> context.offset]

\* the step just taken answered a view request of a submit/view pair
IsView(e) ==
    /\ e.status = 200
    /\ \/ e.handler = "year_search"
       \/ e.handler = "keyword_form" /\ served = "main"

\* the criterion kind that a view request is the display of
ViewKind(handler) == IF handler = "year_search" THEN "year" ELSE "keyword"

----------------------------------------------------------------------------
(* Properties of the filters, under SpecFilter *)

\* C6: the list the year submit computes and stores is exactly the films f of
\* the catalog with from <= f.year <= to, both bounds included, each once and
\* in catalog order; when from > to it is empty.
C6_YearRangeInclusive ==
    LET Good(result, k) ==
            /\ result = Selection(films_file,
                   {i \in 1..Len(films_file) :
                        k.from <= films_file[i].year /\ films_file[i].year <= k.to})
            /\ k.from > k.to => result = <<>>
    IN  /\ req["A"].pc = "year_form_submit:store" => Good(req["A"].filtered, req["A"].crit)
        /\ last_write.crit.kind = "year" => Good(filtered_films, last_write.crit)

C6_Witness ==
    /\ last_write.crit.kind = "year"
    /\ last_write.crit.from < last_write.crit.to
    /\ event.status = 303
    /\ Len(filtered_films) < Len(films_file)
    /\ \E j \in 1..Len(filtered_films) : filtered_films[j].year = last_write.crit.from
    /\ \E j \in 1..Len(filtered_films) : filtered_films[j].year = last_write.crit.to

\* C7: the list the genre request computes (and, in main.py, stores and shows;
\* in app.py, shows) is exactly the films of the catalog whose genre equals the
\* requested one, case included: every item has that genre, every matching film
\* is there once, in catalog order.
C7_GenreExactMatch ==
    LET Good(result, g) ==
            /\ \A j \in 1..Len(result) : result[j].genre = g
            /\ result = Selection(films_file,
                   {i \in 1..Len(films_file) : films_file[i].genre = g})
    IN  /\ req["A"].pc = "films_by_genre:store" => Good(req["A"].filtered, req["A"].crit.text)
        /\ last_write.crit.kind = "genre" => Good(filtered_films, last_write.crit.text)
        /\ (event.handler = "films_by_genre" /\ event.status = 200) =>
              Good(event.context.items, event.context.title[2])

C7_Witness ==
    /\ event.handler = "films_by_genre"
    /\ event.status = 200
    /\ Len(event.context.items) >= 2
    /\ \E i \in 1..Len(films_file) :
          /\ films_file[i].genre # event.context.title[2]
          /\ lower(films_file[i].genre) = lower(event.context.title[2])

----------------------------------------------------------------------------
(* Properties of the result slot, under Spec (two concurrent clients) *)

\* C2: submit-then-view. When a client's view request (GET /search/year, or
\* GET /search/keyword of main.py) reads the slot and the last store into the
\* slot was that client's own submit of the matching kind with criterion c (no
\* other store came between the two), the view shows paginate(filter(catalog,
\* c), n, 10): the matching films in catalog order sliced to page n, with its
\* has_prev, has_next and offset.
C2_SubmitThenView ==
    (/\ IsView(event)
     /\ last_write.client = event.client
     /\ last_write.crit.kind = ViewKind(event.handler))
    =>
    /\ submitted[event.client] = last_write.crit
    /\ PageOf(event.context) =
          paginate(FilterOf(films_file, last_write.crit), event.context.page, PER_PAGE)

C2_Witness ==
    /\ IsView(event)
    /\ event.client = "A"
    /\ last_write.client = "A"
    /\ last_write.crit.kind = ViewKind(event.handler)
    /\ submitted["B"] # NoCrit
    /\ event.context.page = 1
    /\ Len(event.context.items) = PER_PAGE
    /\ event.context.has_next
    /\ Len(event.context.items) < Len(films_file)

\* C3: no per-client isolation. A view shows the result of whichever store came
\* last, whoever made it: when the last store was another client's, the view
\* shows the paginated result of that client's criterion. (The witness is the
\* interleaving A submits cA, B submits cB, A views and is shown cB's films.)
C3_ViewShowsLastWriter ==
    (/\ IsView(event)
     /\ last_write.client # "none"
     /\ last_write.client # event.client)
    =>
    PageOf(event.context) =
        paginate(FilterOf(films_file, last_write.crit), event.context.page, PER_PAGE)

C3_Witness ==
    /\ IsView(event)
    /\ event.client = "A"
    /\ submitted["A"] # NoCrit
    /\ last_write = [client |-> "B", crit |-> submitted["B"]]
    /\ event.context.items =
          paginate(FilterOf(films_file, submitted["B"]), event.context.page, PER_PAGE).items
    /\ event.context.items #
          paginate(FilterOf(films_file, submitted["A"]), event.context.page, PER_PAGE).items

\* the elements at the 0-based positions [offset, offset + per_page) that lie
\* within [0, length)
ClampedItems(items, offset, per_page) ==
    LET lo == IF offset < 0 THEN 0 ELSE offset
        hi == IF offset + per_page > Len(items) THEN Len(items) ELSE offset + per_page
    IN  IF lo >= hi THEN <<>> ELSE SubSeq(items, lo + 1, hi)

\* C8: for every page number a view accepts, 0 and negative ones included, the
\* items shown are the elements of the slot at the positions [offset, offset +
\* PER_PAGE) clamped to [0, length), offset = (page-1)*PER_PAGE; so for every
\* page <= 0 no item is shown and has_prev is false.
C8_NonPositivePageIsEmpty ==
    IsView(event) =>
        LET page == event.context.page
            offset == (page - 1) * PER_PAGE
        IN  /\ event.context.offset = offset
            /\ event.context.items = ClampedItems(filtered_films, offset, PER_PAGE)
            /\ page <= 0 => (event.context.items = <<>> /\ ~event.context.has_prev)

\* C9 as stated: only the search submits (POST /search/keyword, POST
\* /search/year) change the slot; every other request leaves it as it was.
C9_OnlySubmitsWrite ==
    [][filtered_films' # filtered_films =>
          event'.handler \in {"keyword_search", "year_form_submit"}]_vars

\* C9 amended: the slot is changed only by the storing step of POST /search/year,
\* of main.py's POST /search/keyword and of main.py's GET /genres/{genre}; every
\* other step (GET /, GET /genres, GET /statistics, the two views, and app.py's
\* GET /genres/{genre} and POST /search/keyword) leaves the slot, and the record
\* of who stored last, unchanged.
C9_WritersOfTheSlot ==
    [][(\/ filtered_films' # filtered_films
        \/ last_write' # last_write)
       =>
       (/\ last_write'.client = event'.client
        /\ \/ event'.handler = "year_form_submit" /\ event'.status = 303
           \/ event'.handler = "keyword_search" /\ event'.status = 303 /\ served = "main"
           \/ event'.handler = "films_by_genre" /\ event'.status = 0 /\ served = "main")]_vars

C9_Witness ==
    /\ served = "main"
    /\ event.handler = "films_by_genre"
    /\ event.client = "A"
    /\ req["A"].pc = "films_by_genre:paginate"
    /\ last_write = [client |-> "A", crit |-> req["A"].crit]
    /\ submitted["A"] # NoCrit
    /\ filtered_films # FilterOf(films_file, submitted["A"])
    /\ filtered_films # <<>>

\* the step just taken read the slot and answered with a page of it
ReadsSlot(e) ==
    /\ e.status = 200
    /\ \/ IsView(e)
       \/ e.handler = "films_by_genre" /\ served = "main"

\* the slot holds the initial empty list (no store yet) or the complete result
\* of one filter evaluation over the catalog, that of the criterion of the
\* request that stored last; a request that reads the slot shows a page of such
\* a list, and a list still being built is held by its request alone
SlotHoldsOneCompleteResult ==
    /\ last_write = NoWrite => filtered_films = <<>>
    /\ last_write # NoWrite => filtered_films = FilterOf(films_file, last_write.crit)
    /\ ReadsSlot(event) =>
          event.context.items =
              paginate(FilterOf(films_file, last_write.crit),
                       event.context.page, PER_PAGE).items
    /\ \A c \in Clients :
          req[c].pc \in {"year_form_submit:store", "keyword_search:store",
                         "films_by_genre:store"} =>
              req[c].filtered = FilterOf(films_file, req[c].crit)

\* a view answered before any store shows items=[] with has_next=false
ViewBeforeAnyStoreIsEmpty ==
    (IsView(event) /\ last_write = NoWrite) =>
        (event.context.items = <<>> /\ ~event.context.has_next)

\* C10: in every reachable state, under any interleaving of submit and view
\* requests, the slot holds the initial empty list or the complete result of a
\* single filter evaluation over the catalog; a view never observes a partial
\* or mixed list, and a view issued before any write returns items=[] with
\* has_next=false.
C10_SlotIsOneCompleteResult ==
    /\ SlotHoldsOneCompleteResult
    /\ ViewBeforeAnyStoreIsEmpty

====
